---- MODULE Spec2Model ----
(***************************************************************************)
(* secp256k1-style ECDSA (monadbobo/ecdsa256): prime field Fe, scalar      *)
(* field Scalar, the affine curve group and sign / verify / normalize.     *)
(*                                                                         *)
(* The 256-bit constants of the source are scaled down: the curve is the   *)
(* same equation y^2 = x^3 + 7 over a small prime field that keeps the     *)
(* shape of secp256k1:                                                     *)
(*   - P is prime, the group of the curve has prime order N (cofactor 1,   *)
(*     so no curve point has y = 0 and every non-identity point generates  *)
(*     the group),                                                         *)
(*   - N < P < 2^BITS, so that a coordinate (mod P) may exceed N and is    *)
(*     reduced by Scalar::new, and an integer of the full width may        *)
(*     exceed both moduli.                                                 *)
(* Every operator below computes what the source computes, with these      *)
(* three numbers in place of the 256-bit ones.                             *)
(***************************************************************************)
EXTENDS Integers, Sequences, FiniteSets, TLC

\* field.rs: const P (the field prime), scaled
P == 43
\* scalar.rs: const N (the group order), scaled
N == 31
\* the width of U256: `for i in 0..256` in curve.rs, scaled
BITS == 6

RECURSIVE Pow2(_)
Pow2(e) == IF e = 0 THEN 1 ELSE 2 * Pow2(e - 1)

\* the values of a U256
U256 == 0 .. (Pow2(BITS) - 1)
\* the values of a Scalar (always reduced mod N)
ScalarVals == 0 .. (N - 1)
\* the values of an Fe (always reduced mod P)
FeVals == 0 .. (P - 1)

\* Option<T>: None, or Some(v) with v read as o.some
None == [none |-> TRUE]
Some(v) == [some |-> v]

---------------------------------------------------------------------------
(* field.rs: const_monty_form!(Fe, Coordinate) *)

FeNew(v) == v % P
FeAdd(x, y) == (x + y) % P
FeSub(x, y) == (x + P - y) % P
FeMul(x, y) == (x * y) % P
RECURSIVE FePow(_, _)
FePow(x, e) == IF e = 0 THEN 1 % P ELSE FeMul(x, FePow(x, e - 1))
\* invert: None exactly for zero, else the y with x * y = 1
FeInverses == [x \in 1 .. (P - 1) |-> CHOOSE y \in 1 .. (P - 1) : FeMul(x, y) = 1]
FeInvert(x) == IF x = 0 THEN None ELSE Some(FeInverses[x])

(* scalar.rs: const_monty_form!(Scalar, Secp256k1N) *)

ScalarNew(v) == v % N
ScalarAdd(x, y) == (x + y) % N
ScalarMul(x, y) == (x * y) % N
ScalarInverses == [x \in 1 .. (N - 1) |-> CHOOSE y \in 1 .. (N - 1) : ScalarMul(x, y) = 1]
ScalarInvert(x) == IF x = 0 THEN None ELSE Some(ScalarInverses[x])

---------------------------------------------------------------------------
(* curve.rs: struct Point { cords: Option<(Fe, Fe)> } *)

Identity == [cords |-> None]
Affine(x, y) == [cords |-> Some(<<x, y>>)]
\* the outcome of a call that panicked (an unwrap of an empty option)
Panicked == [panic |-> TRUE]

\* accessors of Point used by ecdsa.rs
is_infinity(p) == p.cords = None
PointX(p) == IF p.cords = None THEN None ELSE Some(p.cords.some[1])
PointY(p) == IF p.cords = None THEN None ELSE Some(p.cords.some[2])

\* the base point returned by generator()
generator == Affine(7, 7)

\* y^2 = x^3 + 7 over the field
OnCurve(p) ==
    \/ p = Identity
    \/ /\ p # Panicked
       /\ p.cords # None
       /\ p.cords.some[1] \in FeVals
       /\ p.cords.some[2] \in FeVals
       /\ FePow(p.cords.some[2], 2) = FeAdd(FePow(p.cords.some[1], 3), FeNew(7))

\* impl Add for Point: the doubling branch
AddDoubling(sx, sy) ==
    LET numerator == FeMul(FePow(sx, 2), FeNew(3))
        denominator == FeMul(sy, FeNew(2))
        inv == FeInvert(denominator)
    IN  IF inv = None THEN Panicked     \* denominator.invert().unwrap()
        ELSE LET m == FeMul(numerator, inv.some)
                 rx == FeSub(FePow(m, 2), FeMul(sx, FeNew(2)))
                 ry == FeSub(FeMul(m, FeSub(sx, rx)), sy)
             IN  Affine(rx, ry)

\* AddChord with the sign of ry lost: ry = m * (rx - sx) - sy
AddChordFlipped(sx, sy, ox, oy) ==
    LET inv == FeInvert(FeSub(ox, sx))
    IN  IF inv = None THEN Panicked
        ELSE LET m == FeMul(FeSub(oy, sy), inv.some)
                 rx == FeSub(FeSub(FePow(m, 2), sx), ox)
                 ry == FeSub(FeMul(m, FeSub(rx, sx)), sy)
             IN  Affine(rx, ry)

\* impl Add for Point: the chord branch (sx # ox)
AddChord(sx, sy, ox, oy) ==
    LET inv == FeInvert(FeSub(ox, sx))
    IN  IF inv = None THEN Panicked     \* (ox - sx).invert().unwrap()
        ELSE LET m == FeMul(FeSub(oy, sy), inv.some)
                 rx == FeSub(FeSub(FePow(m, 2), sx), ox)
                 ry == FeSub(FeMul(m, FeSub(sx, rx)), sy)
             IN  Affine(rx, ry)

\* impl Add for Point: add(self, other); a panic of an operand's
\* computation has already unwound the caller
add(self, other) ==
    IF self = Panicked \/ other = Panicked THEN Panicked
    ELSE IF other.cords = None THEN self
    ELSE IF self.cords = None THEN other
    ELSE LET sx == self.cords.some[1]
             sy == self.cords.some[2]
             ox == other.cords.some[1]
             oy == other.cords.some[2]
         IN  IF sx = ox
             THEN IF sy = oy THEN AddDoubling(sx, sy) ELSE Identity
             ELSE AddChord(sx, sy, ox, oy)

\* Point::double
double(p) == add(p, p)

\* scalar.bit(i)
Bit(scalar, i) == (scalar \div Pow2(i)) % 2 = 1

\* MulLoop that stops one bit short: `for i in 0..255`
RECURSIVE MulLoopShort(_, _, _, _)
MulLoopShort(result, addend, scalar, i) ==
    IF i = BITS - 1 THEN result
    ELSE LET r1 == IF Bit(scalar, i) THEN add(result, addend) ELSE result
             a1 == double(addend)
         IN  IF r1 = Panicked \/ a1 = Panicked THEN Panicked
             ELSE MulLoopShort(r1, a1, scalar, i + 1)

\* impl Mul<U256> for Point: the loop `for i in 0..256`
RECURSIVE MulLoop(_, _, _, _)
MulLoop(result, addend, scalar, i) ==
    IF i = BITS THEN result
    ELSE LET r1 == IF Bit(scalar, i) THEN add(result, addend) ELSE result
             a1 == double(addend)
         IN  IF r1 = Panicked \/ a1 = Panicked THEN Panicked
             ELSE MulLoop(r1, a1, scalar, i + 1)

mul(self, scalar) == MulLoop(Identity, self, scalar, 0)

---------------------------------------------------------------------------
(* ecdsa.rs *)

Signature(r, s, v) == [r |-> r, s |-> s, v |-> v]

\* Signature::is_valid
is_valid(sig) == sig.r > 0 /\ sig.r < N /\ sig.s > 0 /\ sig.s < N

\* n.wrapping_shr(1)
half_n == N \div 2

\* v ^ 1 on the u8 recovery id
Xor1(v) == IF v % 2 = 0 THEN v + 1 ELSE v - 1

\* normalize that negates s and leaves v as it was
normalize_noflip(sig) ==
    IF sig.s > half_n
    THEN Signature(sig.r, ScalarNew((N - sig.s) % Pow2(BITS)), sig.v)
    ELSE sig

\* normalize that tests s >= n/2
normalize_ge(sig) ==
    IF sig.s >= half_n
    THEN Signature(sig.r, ScalarNew((N - sig.s) % Pow2(BITS)), Xor1(sig.v))
    ELSE sig

\* Signature::normalize
normalize(sig) ==
    IF sig.s > half_n
    THEN Signature(sig.r, ScalarNew((N - sig.s) % Pow2(BITS)), Xor1(sig.v))
    ELSE sig

\* sign(priv_key, msg_hash, k): None or Some(signature)
sign(priv_key, msg_hash, k) ==
    LET r_point == mul(generator, k)
    IN  IF r_point = Panicked THEN Panicked
        ELSE IF PointX(r_point) = None THEN None        \* r_point.x()?
        ELSE IF PointY(r_point) = None THEN None        \* r_point.y()?
        ELSE LET r_x == PointX(r_point).some
                 r_y == PointY(r_point).some
                 recovery_id == IF r_y % 2 = 1 THEN 1 ELSE 0
                 r == ScalarNew(r_x)
                 k_inv_opt == ScalarInvert(k)
             IN  IF r = 0 THEN None
                 ELSE IF k_inv_opt = None THEN None
                 ELSE LET r_times_d == ScalarMul(r, priv_key)
                          z_plus_rd == ScalarAdd(msg_hash, r_times_d)
                          s == ScalarMul(k_inv_opt.some, z_plus_rd)
                      IN  IF s = 0 THEN None
                          ELSE Some(normalize(Signature(r, s, recovery_id)))

\* the value a call returned
Returned(v) == [ret |-> v]

\* verify that compares the x-coordinate with r without reducing it mod n
verify_unreduced(pub_key, msg_hash, sig) ==
    IF ~is_valid(sig) \/ is_infinity(pub_key) THEN Returned(FALSE)
    ELSE LET s_inv_opt == ScalarInvert(sig.s)
         IN  IF s_inv_opt = None THEN Returned(FALSE)
             ELSE LET u1 == ScalarMul(msg_hash, s_inv_opt.some)
                      u2 == ScalarMul(sig.r, s_inv_opt.some)
                      r_point == add(mul(generator, u1), mul(pub_key, u2))
                  IN  IF r_point = Panicked THEN Panicked
                      ELSE IF is_infinity(r_point) THEN Returned(FALSE)
                      ELSE Returned(PointX(r_point).some = sig.r)

\* verify with u1 and u2 exchanged: u1 * pub_key + u2 * G
verify_swapped(pub_key, msg_hash, sig) ==
    IF ~is_valid(sig) \/ is_infinity(pub_key) THEN Returned(FALSE)
    ELSE LET s_inv_opt == ScalarInvert(sig.s)
         IN  IF s_inv_opt = None THEN Returned(FALSE)
             ELSE LET u1 == ScalarMul(msg_hash, s_inv_opt.some)
                      u2 == ScalarMul(sig.r, s_inv_opt.some)
                      r_point == add(mul(generator, u2), mul(pub_key, u1))
                  IN  IF r_point = Panicked THEN Panicked
                      ELSE IF is_infinity(r_point) THEN Returned(FALSE)
                      ELSE Returned(ScalarNew(PointX(r_point).some) = sig.r)

\* verify(pub_key, msg_hash, sig): Returned(TRUE), Returned(FALSE), or Panicked
verify(pub_key, msg_hash, sig) ==
    IF ~is_valid(sig) \/ is_infinity(pub_key) THEN Returned(FALSE)
    ELSE LET s_inv_opt == ScalarInvert(sig.s)
         IN  IF s_inv_opt = None THEN Returned(FALSE)
             ELSE LET u1 == ScalarMul(msg_hash, s_inv_opt.some)
                      u2 == ScalarMul(sig.r, s_inv_opt.some)
                      r_point == add(mul(generator, u1), mul(pub_key, u2))
                  IN  IF r_point = Panicked THEN Panicked
                      ELSE IF is_infinity(r_point) THEN Returned(FALSE)
                      ELSE Returned(ScalarNew(PointX(r_point).some) = sig.r)

\* public_key_from_private
public_key_from_private(priv_key) == mul(generator, priv_key)

---------------------------------------------------------------------------
(* The callers: every operation of the library is a pure function of its  *)
(* arguments, so the state is a caller's arguments and the value the call *)
(* returned.                                                              *)

VARIABLES
    pc,         \* the caller's position: the last operation that returned
    priv,       \* sign: priv_key
    digest,     \* sign: msg_hash
    nonce,      \* sign: k
    sig,        \* what sign returned
    pub,        \* verify: pub_key
    vdigest,    \* verify: msg_hash
    vsig,       \* verify: sig
    ok,         \* what verify returned
    pt,         \* Point::add / double / mul: self
    scalar,     \* Point::mul: scalar
    res,        \* what the point operation returned
    a,          \* a point held by the caller
    b,          \* another point held by the caller
    nin,        \* normalize: the signature first given
    nsig,       \* normalize: the signature after the calls so far
    ncalls,     \* normalize: the number of calls so far
    msg,        \* sign_hash: msg_hash, the 32 bytes read as an integer
    drbg,       \* generate_k_rfc6979: the state of the call's HmacDrbg
    k_val,      \* generate_k_rfc6979: the candidate drawn
    results,    \* sign_hash: per finished call, the nonce and the result
    chain_id,   \* v_eip155: chain_id
    ev,         \* v_eip155: self.v
    v_out       \* what v_eip155 did

ecdsaVars == <<priv, digest, nonce, sig, pub, vdigest, vsig, ok>>
pointVars == <<pt, scalar, res>>
groupVars == <<a, b>>
normVars == <<nin, nsig, ncalls>>
rfcVars == <<msg, drbg, k_val, results>>
eipVars == <<chain_id, ev, v_out>>
vars == <<pc, ecdsaVars, pointVars, groupVars, normVars, rfcVars, eipVars>>

\* a variable no call has set
Unset == [unset |-> TRUE]

EcdsaIdle ==
    /\ priv = 0 /\ digest = 0 /\ nonce = 0 /\ sig = Unset
    /\ pub = Identity /\ vdigest = 0 /\ vsig = Unset /\ ok = Unset
PointIdle == pt = Identity /\ scalar = 0 /\ res = Unset
GroupIdle == a = Identity /\ b = Identity
NormIdle == nin = Unset /\ nsig = Unset /\ ncalls = 0
RfcIdle == msg = 0 /\ drbg = Unset /\ k_val = 0 /\ results = <<>>
EipIdle == chain_id = <<0, 0, 0, 0>> /\ ev = 0 /\ v_out = Unset

---------------------------------------------------------------------------
(* sign, then verify (ecdsa.rs tests test_sign_and_verify,                *)
(* test_verify_fails_with_wrong_message, test_verify_fails_with_wrong_pubkey) *)

\* the private keys of the negative-verification runs
MaxKey == 2

Sign ==
    /\ pc = "start"
    /\ sig' = sign(priv, digest, nonce)
    /\ pc' = "signed"
    /\ UNCHANGED <<priv, digest, nonce, pub, vdigest, vsig, ok>>
    /\ UNCHANGED <<pointVars, groupVars, normVars, rfcVars, eipVars>>

\* verify(&pub_key, &msg_hash, &sig) after sign(...).expect(..)
VerifyAfterSign(key, z, at) ==
    /\ pc = "signed"
    /\ sig # None /\ sig # Panicked
    /\ pub' = public_key_from_private(key)
    /\ vdigest' = z
    /\ vsig' = sig.some
    /\ ok' = verify(pub', vdigest', vsig')
    /\ pc' = at
    /\ UNCHANGED <<priv, digest, nonce, sig>>
    /\ UNCHANGED <<pointVars, groupVars, normVars, rfcVars, eipVars>>

VerifyOwn == VerifyAfterSign(priv, digest, "verified")

VerifyWrongMessage ==
    \E wrong_msg \in ScalarVals \ {digest} :
        VerifyAfterSign(priv, wrong_msg, "verified_wrong_msg")

VerifyWrongPubkey ==
    \E wrong_priv \in ScalarVals \ {priv} :
        VerifyAfterSign(wrong_priv, digest, "verified_wrong_pub")

InitSign ==
    /\ pc = "start"
    /\ priv \in ScalarVals
    /\ digest \in ScalarVals
    /\ nonce \in ScalarVals
    /\ sig = Unset /\ pub = Identity /\ vdigest = 0 /\ vsig = Unset /\ ok = Unset
    /\ PointIdle /\ GroupIdle /\ NormIdle /\ RfcIdle /\ EipIdle

NextSign == Sign \/ VerifyOwn

\* every key, digest and nonce; sign, then verify with the signer's key
SpecSign == InitSign /\ [][NextSign]_vars

InitNeg ==
    /\ pc = "start"
    /\ priv \in 1 .. MaxKey
    /\ digest \in ScalarVals
    /\ nonce \in ScalarVals
    /\ sig = Unset /\ pub = Identity /\ vdigest = 0 /\ vsig = Unset /\ ok = Unset
    /\ PointIdle /\ GroupIdle /\ NormIdle /\ RfcIdle /\ EipIdle

NextNeg == Sign \/ VerifyWrongMessage \/ VerifyWrongPubkey

\* sign, then verify with another digest or another key
SpecNeg == InitNeg /\ [][NextNeg]_vars

---------------------------------------------------------------------------
(* verify on values the caller constructed directly *)

\* the coordinates, digests and signature parts the caller constructs
MaxCoord == 7
MaxDigest == 2
MaxSigPart == 2

DirectPoints ==
    {Identity} \cup {Affine(x, y) : x \in 0 .. MaxCoord, y \in 0 .. MaxCoord}
DirectSigs ==
    {Signature(r, s, v) : r \in 0 .. MaxSigPart, s \in 0 .. MaxSigPart, v \in {0, 1}}

VerifyDirect ==
    /\ pc = "start"
    /\ ok' = verify(pub, vdigest, vsig)
    /\ pc' = "verified_direct"
    /\ UNCHANGED <<priv, digest, nonce, sig, pub, vdigest, vsig>>
    /\ UNCHANGED <<pointVars, groupVars, normVars, rfcVars, eipVars>>

InitVerify ==
    /\ pc = "start"
    /\ priv = 0 /\ digest = 0 /\ nonce = 0 /\ sig = Unset
    /\ pub \in DirectPoints
    /\ vdigest \in 0 .. MaxDigest
    /\ vsig \in DirectSigs
    /\ ok = Unset
    /\ PointIdle /\ GroupIdle /\ NormIdle /\ RfcIdle /\ EipIdle

NextVerify == VerifyDirect

SpecVerify == InitVerify /\ [][NextVerify]_vars

---------------------------------------------------------------------------
(* Point::add, Point::double and Point * U256 on one point *)

\* every point of the curve, the identity included
CurvePoints ==
    {Identity} \cup {q \in {Affine(x, y) : x \in FeVals, y \in FeVals} : OnCurve(q)}

\* the pairs (x, 0): directly constructed, a vertical tangent
TangentPoints == {Affine(x, 0) : x \in FeVals}

Mul ==
    /\ pc = "start"
    /\ res' = mul(pt, scalar)
    /\ pc' = "mul"
    /\ UNCHANGED <<pt, scalar>>
    /\ UNCHANGED <<ecdsaVars, groupVars, normVars, rfcVars, eipVars>>

Double ==
    /\ pc = "start"
    /\ res' = double(pt)
    /\ pc' = "double"
    /\ UNCHANGED <<pt, scalar>>
    /\ UNCHANGED <<ecdsaVars, groupVars, normVars, rfcVars, eipVars>>

AddSelf ==
    /\ pc = "start"
    /\ res' = add(pt, pt)
    /\ pc' = "add"
    /\ UNCHANGED <<pt, scalar>>
    /\ UNCHANGED <<ecdsaVars, groupVars, normVars, rfcVars, eipVars>>

InitMul ==
    /\ pc = "start"
    /\ pt \in CurvePoints
    /\ scalar \in U256
    /\ res = Unset
    /\ EcdsaIdle /\ GroupIdle /\ NormIdle /\ RfcIdle /\ EipIdle

NextMul == Mul

\* P * k for every curve point P and every k of the full width
SpecMul == InitMul /\ [][NextMul]_vars

InitDouble ==
    /\ pc = "start"
    /\ pt \in CurvePoints \cup TangentPoints
    /\ scalar = 0
    /\ res = Unset
    /\ EcdsaIdle /\ GroupIdle /\ NormIdle /\ RfcIdle /\ EipIdle

NextDouble == Double \/ AddSelf

\* P + P and P.double() for the curve points and the pairs (x, 0)
SpecDouble == InitDouble /\ [][NextDouble]_vars

---------------------------------------------------------------------------
(* any sequence of add, double and scalar multiplication on the points    *)
(* the caller holds, from the generator and the identity                  *)

GroupAdd ==
    /\ a' = add(a, b)
    /\ pc' = "add"
    /\ UNCHANGED b
    /\ UNCHANGED <<ecdsaVars, pointVars, normVars, rfcVars, eipVars>>

GroupDouble ==
    /\ a' = double(a)
    /\ pc' = "double"
    /\ UNCHANGED b
    /\ UNCHANGED <<ecdsaVars, pointVars, normVars, rfcVars, eipVars>>

GroupMul ==
    \E k \in U256 :
        /\ a' = mul(a, k)
        /\ pc' = "mul"
        /\ UNCHANGED b
        /\ UNCHANGED <<ecdsaVars, pointVars, normVars, rfcVars, eipVars>>

\* the caller keeps the result and takes up the other point
GroupSwap ==
    /\ a' = b
    /\ b' = a
    /\ pc' = "swap"
    /\ UNCHANGED <<ecdsaVars, pointVars, normVars, rfcVars, eipVars>>

\* the caller clones the result
GroupClone ==
    /\ b' = a
    /\ pc' = "clone"
    /\ UNCHANGED a
    /\ UNCHANGED <<ecdsaVars, pointVars, normVars, rfcVars, eipVars>>

InitGroup ==
    /\ pc = "start"
    /\ a = generator
    /\ b = Identity
    /\ EcdsaIdle /\ PointIdle /\ NormIdle /\ RfcIdle /\ EipIdle

NextGroup == GroupAdd \/ GroupDouble \/ GroupMul \/ GroupSwap \/ GroupClone

SpecGroup == InitGroup /\ [][NextGroup]_vars

---------------------------------------------------------------------------
(* Signature::normalize, called again on its own result *)

\* the calls of normalize on one signature
MaxNormCalls == 2

AllSigs == {Signature(r, s, v) : r \in ScalarVals, s \in ScalarVals, v \in {0, 1}}

Normalize ==
    /\ ncalls < MaxNormCalls
    /\ nsig' = normalize(nsig)
    /\ ncalls' = ncalls + 1
    /\ pc' = "normalized"
    /\ UNCHANGED nin
    /\ UNCHANGED <<ecdsaVars, pointVars, groupVars, rfcVars, eipVars>>

InitNorm ==
    /\ pc = "start"
    /\ nin \in AllSigs
    /\ nsig = nin
    /\ ncalls = 0
    /\ EcdsaIdle /\ PointIdle /\ GroupIdle /\ RfcIdle /\ EipIdle

NextNorm == Normalize

SpecNorm == InitNorm /\ [][NextNorm]_vars

---------------------------------------------------------------------------
(* sign_hash: generate_k_rfc6979, then sign, called twice by one caller   *)
(* (test_rfc6979_deterministic)                                           *)

\* the calls of sign_hash the caller makes
MaxCalls == 2

\* HmacDrbg::<Sha256>::new(&priv_bytes, msg_hash, &[]): the generator's
\* state is a fixed function of the two byte strings
HmacDrbgNew(entropy, nonce_bytes) ==
    [state |-> (7 * entropy + 3 * nonce_bytes + 1) % Pow2(BITS)]

\* drbg.fill_bytes(&mut k_bytes): the state moves on, the bytes read as a
\* big-endian integer are a fixed function of the new state
FillBytes(d) == [state |-> (5 * d.state + 3) % Pow2(BITS)]
FromBeSlice(d) == d.state

\* the test with k_val <= n
KInRangeInclusive(v) == v > 0 /\ v <= N

\* k_val > U256::ZERO && k_val < n
KInRange(v) == v > 0 /\ v < N

\* sign_hash is entered: generate_k_rfc6979 creates its generator
SignHashCall ==
    /\ pc \in {"start", "returned"}
    /\ Len(results) < MaxCalls
    /\ drbg' = HmacDrbgNew(priv, msg)
    /\ pc' = "loop"
    /\ UNCHANGED <<msg, k_val, results>>
    /\ UNCHANGED <<ecdsaVars, pointVars, groupVars, normVars, eipVars>>

\* one turn of the loop: fill_bytes and from_be_slice
DrawCandidate ==
    /\ pc = "loop"
    /\ drbg' = FillBytes(drbg)
    /\ k_val' = FromBeSlice(drbg')
    /\ pc' = "drawn"
    /\ UNCHANGED <<msg, results>>
    /\ UNCHANGED <<ecdsaVars, pointVars, groupVars, normVars, eipVars>>

\* return Scalar::new(&k_val); the generator goes out of scope
AcceptCandidate ==
    /\ pc = "drawn"
    /\ KInRange(k_val)
    /\ drbg' = Unset
    /\ pc' = "have_k"
    /\ UNCHANGED <<msg, k_val, results>>
    /\ UNCHANGED <<ecdsaVars, pointVars, groupVars, normVars, eipVars>>

\* the candidate is dropped and the loop goes round
RejectCandidate ==
    /\ pc = "drawn"
    /\ ~KInRange(k_val)
    /\ pc' = "loop"
    /\ UNCHANGED <<msg, drbg, k_val, results>>
    /\ UNCHANGED <<ecdsaVars, pointVars, groupVars, normVars, eipVars>>

\* sign(priv_key, &msg_scalar, &k)
SignHashReturn ==
    /\ pc = "have_k"
    /\ results' = Append(results,
                         [k |-> ScalarNew(k_val),
                          sig |-> sign(priv, ScalarNew(msg), ScalarNew(k_val))])
    /\ pc' = "returned"
    /\ UNCHANGED <<msg, drbg, k_val>>
    /\ UNCHANGED <<ecdsaVars, pointVars, groupVars, normVars, eipVars>>

InitRfc ==
    /\ pc = "start"
    /\ priv \in ScalarVals
    /\ msg \in U256
    /\ digest = 0 /\ nonce = 0 /\ sig = Unset
    /\ pub = Identity /\ vdigest = 0 /\ vsig = Unset /\ ok = Unset
    /\ drbg = Unset /\ k_val = 0 /\ results = <<>>
    /\ PointIdle /\ GroupIdle /\ NormIdle /\ EipIdle

NextRfc ==
    \/ SignHashCall
    \/ DrawCandidate
    \/ AcceptCandidate
    \/ RejectCandidate
    \/ SignHashReturn

SpecRfc == InitRfc /\ [][NextRfc]_vars

---------------------------------------------------------------------------
(* Signature::v_eip155 on u64, kept at its width: a u64 is four 16-bit    *)
(* limbs, the least significant first                                     *)

LimbBase == Pow2(16)
U64Limbs == 64 \div 16

\* x + y + carry limb by limb; the last element of the result is the carry out
RECURSIVE LimbAdd(_, _, _, _)
LimbAdd(x, y, i, carry) ==
    IF i > Len(x) THEN <<carry>>
    ELSE LET t == x[i] + y[i] + carry
         IN  <<t % LimbBase>> \o LimbAdd(x, y, i + 1, t \div LimbBase)

\* x * m + carry limb by limb, m a small factor
RECURSIVE LimbMul(_, _, _, _)
LimbMul(x, m, i, carry) ==
    IF i > Len(x) THEN <<carry>>
    ELSE LET t == x[i] * m + carry
         IN  <<t % LimbBase>> \o LimbMul(x, m, i + 1, t \div LimbBase)

\* a small number as an integer of n limbs
Limbs(v, n) == [i \in 1 .. n |-> IF i = 1 THEN v ELSE 0]
ToU64(v) == Limbs(v, U64Limbs)

\* u64 + and *: the value modulo 2^64 and whether the sum or product overflowed
U64Add(x, y) ==
    LET t == LimbAdd(x, y, 1, 0)
    IN  [val |-> SubSeq(t, 1, U64Limbs), overflow |-> t[U64Limbs + 1] # 0]
U64MulSmall(x, m) ==
    LET t == LimbMul(x, m, 1, 0)
    IN  [val |-> SubSeq(t, 1, U64Limbs), overflow |-> t[U64Limbs + 1] # 0]

\* v_eip155 without the doubling: 35 + chain_id + v
v_eip155_single(v, chain, build) ==
    LET sum == U64Add(ToU64(35), chain)
        total == U64Add(sum.val, ToU64(v))
    IN  IF build = "overflow-checks" /\ (sum.overflow \/ total.overflow)
        THEN Panicked
        ELSE Returned(total.val)

\* Signature::v_eip155: 35 + chain_id * 2 + self.v as u64. An overflowing
\* operation panics in a build with overflow checks and wraps in one without
v_eip155(v, chain, build) ==
    LET twice == U64MulSmall(chain, 2)
        sum == U64Add(ToU64(35), twice.val)
        total == U64Add(sum.val, ToU64(v))
    IN  IF build = "overflow-checks" /\ (twice.overflow \/ sum.overflow \/ total.overflow)
        THEN Panicked
        ELSE Returned(total.val)

\* the chain ids tried: the small ones and those around 2^63 and 2^64
ChainIds ==
    {<<l0, l1, l2, l3>> :
        l0 \in {0, 1, 2, 65517, 65518, 65519, 65535},
        l1 \in {0, 65535},
        l2 \in {0, 65535},
        l3 \in {0, 32767, 32768, 65535}}

VEip155 ==
    /\ pc = "start"
    /\ \E build \in {"overflow-checks", "wrapping"} :
           v_out' = v_eip155(ev, chain_id, build)
    /\ pc' = "v_eip155"
    /\ UNCHANGED <<chain_id, ev>>
    /\ UNCHANGED <<ecdsaVars, pointVars, groupVars, normVars, rfcVars>>

InitEip ==
    /\ pc = "start"
    /\ chain_id \in ChainIds
    /\ ev \in {0, 1}
    /\ v_out = Unset
    /\ EcdsaIdle /\ PointIdle /\ GroupIdle /\ NormIdle /\ RfcIdle

NextEip == VEip155

SpecEip == InitEip /\ [][NextEip]_vars

---------------------------------------------------------------------------
(* What the properties are stated against: the group computed by repeated *)
(* addition, and the integers computed without a width                    *)

\* p added to the identity k times with add
RECURSIVE SumLoop(_, _, _)
SumLoop(acc, p, k) ==
    IF k = 0 THEN acc
    ELSE LET next == add(acc, p)
         IN  IF next = Panicked THEN Panicked ELSE SumLoop(next, p, k - 1)
KFoldSum(p, k) == SumLoop(Identity, p, k)

\* j * G for every scalar j, and the scalar of a point of the group
Multiples == [j \in ScalarVals |-> KFoldSum(generator, j)]
PrivOf(q) == CHOOSE d \in ScalarVals : Multiples[d] = q

\* -x mod n
ScalarNeg(x) == (N - x) % N

\* sign's s before normalize: k^-1 * (z + r * d) mod n
RawS ==
    ScalarMul(ScalarInvert(nonce).some,
              ScalarAdd(digest, ScalarMul(sig.some.r, priv)))

\* the scalar k' with u1 * G + u2 * pub = k' * G in the last verify:
\* s^-1 * (z' + r * d') mod n, d' the private key of pub
KPrime ==
    ScalarMul(ScalarInvert(vsig.s).some,
              ScalarAdd(vdigest, ScalarMul(vsig.r, PrivOf(pub))))

\* the digest -z - 2rd mod n, under which the signature of z verifies too
TwinDigest == ScalarNeg(ScalarAdd(digest, ScalarMul(2, ScalarMul(vsig.r, priv))))

\* 35 + 2 * chain_id + v as an integer, on one limb more than a u64
Exact155 ==
    LET W == U64Limbs + 1
        wide == [i \in 1 .. W |-> IF i <= U64Limbs THEN chain_id[i] ELSE 0]
        twice == SubSeq(LimbMul(wide, 2, 1, 0), 1, W)
        sum == SubSeq(LimbAdd(Limbs(35, W), twice, 1, 0), 1, W)
    IN  SubSeq(LimbAdd(sum, Limbs(ev, W), 1, 0), 1, W)
FitsU64 == Exact155[U64Limbs + 1] = 0

---------------------------------------------------------------------------
(* The properties *)

\* C1: whenever sign(d, z, k) returned Some(sig) for a private key d # 0,
\* verify(public_key_from_private(d), z, sig) returns true, also when
\* normalize replaced s by n - s.
RoundTrip == (pc = "verified" /\ priv # 0) => ok = Returned(TRUE)

\* C1 witness: a verified signature of a key d # 0 whose s was replaced by n - s
RoundTripWitness ==
    /\ pc = "verified" /\ priv # 0 /\ ok = Returned(TRUE)
    /\ RawS > N \div 2
    /\ vsig.s = N - RawS

\* C2 as stated: a signature never verifies under another digest or
\* another public key.
NegativeVerification ==
    pc \in {"verified_wrong_msg", "verified_wrong_pub"} => ok = Returned(FALSE)

\* C2 amended: under another digest z' (or another key d' * G) verify returns
\* true exactly when the key is not the identity and the point k' * G,
\* k' = s^-1 * (z' + r * d') mod n, is not the identity and has an
\* x-coordinate that reduces to r mod n; this is so for z' = -z - 2rd mod n,
\* where k' * G = -(k * G), and false for every z' with another x mod n.
NegativeVerificationAmended ==
    /\ pc \in {"verified_wrong_msg", "verified_wrong_pub"} =>
          (ok = Returned(TRUE) <=>
              /\ pub # Identity
              /\ KPrime # 0
              /\ ScalarNew(PointX(Multiples[KPrime]).some) = vsig.r)
    /\ (pc = "verified_wrong_msg" /\ vdigest = TwinDigest) => ok = Returned(TRUE)

\* C2 witness: verify of a valid signature under another digest returned false
NegativeVerificationWitness ==
    /\ pc = "verified_wrong_msg" /\ vdigest # digest /\ vdigest # TwinDigest
    /\ ok = Returned(FALSE)

\* C3: whenever sign returns Some(sig): 0 < r < n, 0 < s < n, s <= n/2,
\* v in {0, 1}, and v is the parity of the y-coordinate of k * G, flipped
\* exactly when k^-1 * (z + r * d) mod n was greater than n/2.
SignPostcondition ==
    (pc = "signed" /\ sig # None /\ sig # Panicked) =>
        LET y == PointY(Multiples[nonce]).some
            flipped == RawS > N \div 2
        IN  /\ 0 < sig.some.r /\ sig.some.r < N
            /\ 0 < sig.some.s /\ sig.some.s < N
            /\ sig.some.s <= N \div 2
            /\ sig.some.v \in {0, 1}
            /\ sig.some.v = (IF flipped THEN 1 - (y % 2) ELSE y % 2)

\* C3 witness: sign returned a signature whose s it negated and whose v it flipped
SignPostconditionWitness ==
    /\ pc = "signed" /\ sig # None /\ sig # Panicked
    /\ RawS > N \div 2
    /\ sig.some.s = N - RawS
    /\ sig.some.v = 1 - (PointY(Multiples[nonce]).some % 2)

\* C4: after normalize, s <= n/2 and normalize changes nothing more; a
\* signature with s > n/2 has become (r, n - s, v XOR 1), any other is unchanged.
NormalizeIdempotent ==
    ncalls >= 1 =>
        /\ nsig.s <= N \div 2
        /\ normalize(nsig) = nsig
        /\ nin.s > N \div 2 => nsig = Signature(nin.r, N - nin.s, 1 - nin.v)
        /\ nin.s <= N \div 2 => nsig = nin

\* C4 witness: a signature with s > n/2 normalized twice
NormalizeWitness ==
    /\ ncalls = 2 /\ nin.s > N \div 2
    /\ nsig.s = N - nin.s /\ nsig.v # nin.v

\* C5 as stated: verify returns a boolean for every input, and false when
\* the signature is not valid, the key is the identity, s has no inverse or
\* the reconstructed point is the identity.
VerifyFailClosed ==
    pc = "verified_direct" =>
        /\ ok \in {Returned(TRUE), Returned(FALSE)}
        /\ ( \/ ~is_valid(vsig)
             \/ is_infinity(pub)
             \/ ScalarInvert(vsig.s) = None
             \/ add(mul(generator, ScalarMul(vdigest, ScalarInvert(vsig.s).some)),
                    mul(pub, ScalarMul(vsig.r, ScalarInvert(vsig.s).some))) = Identity
           ) => ok = Returned(FALSE)

\* C6: the calls of sign_hash with one (d, z) return the same result from
\* the same nonce, and every nonce lies strictly between 0 and n.
Rfc6979Deterministic ==
    /\ \A i, j \in 1 .. Len(results) : results[i] = results[j]
    /\ \A i \in 1 .. Len(results) : 0 < results[i].k /\ results[i].k < N
    /\ pc = "have_k" => (0 < k_val /\ k_val < N)

\* C6 witness: two calls returned the same signature, the first candidate
\* of the generator having been rejected
Rfc6979Witness ==
    /\ Len(results) = 2
    /\ results[1].sig # None
    /\ results[1].sig = results[2].sig
    /\ ~KInRange(FromBeSlice(FillBytes(HmacDrbgNew(priv, msg))))

\* C7 as stated: for every chain_id of the u64 range v_eip155 returns the
\* integer 35 + 2 * chain_id + v, without wrapping and without a panic.
Eip155Exact ==
    pc = "v_eip155" =>
        /\ FitsU64
        /\ v_out = Returned(SubSeq(Exact155, 1, U64Limbs))

\* C7 amended: for every chain_id with 35 + 2 * chain_id + v < 2^64,
\* v_eip155 returns that integer, in either build.
Eip155ExactInRange ==
    (pc = "v_eip155" /\ FitsU64) =>
        v_out = Returned(SubSeq(Exact155, 1, U64Limbs))

\* C7 witness: chain_id = 1 and v = 1 give 38
Eip155Witness ==
    /\ pc = "v_eip155" /\ chain_id = ToU64(1) /\ ev = 1
    /\ v_out = Returned(ToU64(38))

\* C8 as stated: add(P, P) and double(P) return the identity for every
\* P = (x, 0) and for the identity, with no panic.
VerticalTangent ==
    (pc \in {"double", "add"} /\ (pt = Identity \/ pt.cords.some[2] = 0)) =>
        res = Identity

\* C9: P * k is P added to the identity k times, for every curve point P
\* and every k of the full width, k >= n included, with no panic.
ScalarMulCorrect == pc = "mul" => (res # Panicked /\ res = KFoldSum(pt, scalar))

\* C9 witness: a product by a scalar k > n with its highest bit set
ScalarMulWitness ==
    /\ pc = "mul" /\ scalar > N /\ Bit(scalar, BITS - 1)
    /\ pt # Identity /\ res # Identity
    /\ res = KFoldSum(pt, scalar % N)

\* C10: every point the caller holds is the identity or a reduced (x, y)
\* with y^2 = x^3 + 7.
CurveMembership == OnCurve(a) /\ OnCurve(b)

\* C10 witness: two points other than the generator and the identity, the
\* first one a product
CurveMembershipWitness ==
    /\ pc = "mul"
    /\ a \notin {Identity, generator}
    /\ b \notin {Identity, generator}
    /\ a # b

====
